---- MODULE Spec2Model ----
(***************************************************************************)
(* DesktopGIS: the text-to-geometry parser, the scene (Shape Store plus    *)
(* grid overlay) and the scene-to-text serializer of GISApp, in its two    *)
(* versions: src/main.py (load_file, parse_data, save_file) and            *)
(* desktopgis/gis_app.py (loadFile, parseData, saveFile).                  *)
(*                                                                         *)
(* Text is modelled character by character: a string is a sequence of      *)
(* one-character strings, so that split(), strip(), float(), int() and     *)
(* the f-string formatting are computed, not assumed.                      *)
(*                                                                         *)
(* A float is a record [cls, n]: cls = "fin" with n the value in units of  *)
(* 1/Scale, or cls = "inf" (n = 1 or -1) or cls = "nan" (n = 0).           *)
(***************************************************************************)
EXTENDS Integers, Sequences, FiniteSets, TLC

(***************************************************************************)
(* Bounds of the model.                                                    *)
(***************************************************************************)
\* lines per input file drawn in InitParse
MaxLines == 3
\* tokens per generated input line
MaxTokens == 7

(***************************************************************************)
(* Fixed point: one fractional decimal digit, which is exact for every     *)
(* token of the pools below.                                               *)
(***************************************************************************)
Scale == 10

(***************************************************************************)
(* Strings.                                                                *)
(***************************************************************************)
Whitespace == {" ", "\n", "\t"}

Digits == <<"0", "1", "2", "3", "4", "5", "6", "7", "8", "9">>

IsDigit(c) == \E d \in 1..10 : Digits[d] = c

DigitVal(c) == (CHOOSE d \in 1..10 : Digits[d] = c) - 1

RECURSIVE Flatten(_)
\* "".join(seq): the concatenation of a sequence of strings
Flatten(ss) == IF ss = <<>> THEN <<>> ELSE Head(ss) \o Flatten(Tail(ss))

RECURSIVE Join(_, _)
\* sep.join(seq)
Join(sep, ss) ==
  IF ss = <<>> THEN <<>>
  ELSE IF Len(ss) = 1 THEN ss[1]
  ELSE ss[1] \o sep \o Join(sep, Tail(ss))

\* the k-th smallest element of a finite set of integers
Nth(S, k) == CHOOSE i \in S : Cardinality({j \in S : j <= i}) = k

\* the positions where a token starts, and the position where the token from i ends
TokenStarts(s) ==
  {i \in 1..Len(s) : s[i] \notin Whitespace /\ (i = 1 \/ s[i - 1] \in Whitespace)}

TokenEnd(s, i) ==
  CHOOSE j \in i..Len(s) :
    /\ \A k \in i..j : s[k] \notin Whitespace
    /\ (j = Len(s) \/ s[j + 1] \in Whitespace)

\* str.split(): the maximal runs of non-whitespace characters, in order
split(s) ==
  LET starts == TokenStarts(s)
  IN  [k \in 1..Cardinality(starts) |->
         LET i == Nth(starts, k) IN SubSeq(s, i, TokenEnd(s, i))]

\* str.strip(): without the leading and the trailing whitespace
strip(s) ==
  LET body == {i \in 1..Len(s) : s[i] \notin Whitespace}
  IN  IF body = {} THEN <<>>
      ELSE SubSeq(s, Nth(body, 1), Nth(body, Cardinality(body)))

\* f.readlines(): the lines of the text, each keeping its "\n"; a last line
\* without "\n" is a line too
readlines(s) ==
  LET nl   == {i \in 1..Len(s) : s[i] = "\n"}
      n    == Cardinality(nl)
      last == IF n = 0 THEN 0 ELSE Nth(nl, n)
      full == [k \in 1..n |->
                 SubSeq(s, (IF k = 1 THEN 0 ELSE Nth(nl, k - 1)) + 1, Nth(nl, k))]
  IN  IF last < Len(s) THEN Append(full, SubSeq(s, last + 1, Len(s))) ELSE full

(***************************************************************************)
(* Floats.                                                                 *)
(***************************************************************************)
Fin(n) == [cls |-> "fin", n |-> n]

NaN == [cls |-> "nan", n |-> 0]

Inf(sgn) == [cls |-> "inf", n |-> sgn]

ValueError == [cls |-> "ValueError", n |-> 0]

\* x + k for a literal k (in whole units)
FAdd(x, k) == IF x.cls = "fin" THEN Fin(x.n + k * Scale) ELSE x

RECURSIVE DigitsVal(_, _)
\* the number a digit string denotes, most significant digit first
DigitsVal(ds, acc) ==
  IF ds = <<>> THEN acc ELSE DigitsVal(Tail(ds), 10 * acc + DigitVal(Head(ds)))

AllDigits(ds) == \A i \in 1..Len(ds) : IsDigit(ds[i])

DotPositions(s) == {i \in 1..Len(s) : s[i] = "."}

\* the unsigned decimal literal s: digits, at most one ".", one digit at least
ParseDecimal(s) ==
  LET dots == DotPositions(s)
      dot  == IF dots = {} THEN Len(s) + 1 ELSE CHOOSE i \in dots : TRUE
      ip   == SubSeq(s, 1, dot - 1)
      fp   == SubSeq(s, dot + 1, Len(s))
  IN  IF Cardinality(dots) > 1 \/ ~AllDigits(ip) \/ ~AllDigits(fp)
         \/ (ip = <<>> /\ fp = <<>>)
      THEN ValueError
      ELSE Fin(DigitsVal(ip, 0) * Scale
               + (IF fp = <<>> THEN 0 ELSE (DigitVal(fp[1]) * Scale) \div 10))

\* float(tok) on the model's alphabet (digits, sign, ".", lower-case letters)
float(tok) ==
  LET signed == tok # <<>> /\ tok[1] \in {"+", "-"}
      sgn    == IF signed /\ tok[1] = "-" THEN -1 ELSE 1
      body   == IF signed THEN Tail(tok) ELSE tok
  IN  IF body = <<"n", "a", "n">> THEN NaN
      ELSE IF body = <<"i", "n", "f">> THEN Inf(sgn)
      ELSE LET v == ParseDecimal(body)
           IN  IF v.cls = "fin" THEN Fin(sgn * v.n) ELSE v

RECURSIVE NatToStr(_)
NatToStr(n) ==
  IF n < 10 THEN <<Digits[n + 1]>> ELSE Append(NatToStr(n \div 10), Digits[(n % 10) + 1])

\* str(k) for an int k
IntToStr(k) == IF k < 0 THEN <<"-">> \o NatToStr(-k) ELSE NatToStr(k)

\* int(x): truncation toward zero; ValueError on nan, OverflowError on inf
int(x) ==
  IF x.cls = "nan" THEN [ok |-> FALSE, exc |-> "ValueError", k |-> 0]
  ELSE IF x.cls = "inf" THEN [ok |-> FALSE, exc |-> "OverflowError", k |-> 0]
  ELSE [ok |-> TRUE, exc |-> "none",
        k |-> IF x.n >= 0 THEN x.n \div Scale ELSE -((-x.n) \div Scale)]

\* a + b / 2, as the centre of a rectangle is computed
FAddHalf(a, b) ==
  IF a.cls = "nan" \/ b.cls = "nan" THEN NaN
  ELSE IF a.cls = "inf" THEN (IF b.cls = "inf" /\ b.n # a.n THEN NaN ELSE a)
  ELSE IF b.cls = "inf" THEN b
  ELSE Fin(a.n + b.n \div 2)

(***************************************************************************)
(* Graphics items. geom is the item's coordinate list: an ellipse's rect   *)
(* (x, y, w, h), a line's (x1, y1, x2, y2), a polygon's x1, y1, x2, y2...  *)
(* grid tags the items _draw_grid_line made; no code reads it.             *)
(***************************************************************************)
grid_size == 20

width == 800

height == 600

Item(kind, geom, pen, z, selectable, isgrid) ==
  [kind |-> kind, geom |-> geom, pen |-> pen, z |-> z,
   selectable |-> selectable, grid |-> isgrid]

RECURSIVE PolygonPoints(_, _, _)
\* [QPointF(coords[i], coords[i + 1]) for i in range(0, len(coords), 2)], i from 0;
\* coords[i + 1] past the end raises IndexError
PolygonPoints(coords, i, pts) ==
  IF i >= Len(coords) THEN [ok |-> TRUE, pts |-> pts]
  ELSE IF i + 2 > Len(coords) THEN [ok |-> FALSE, pts |-> pts]
  ELSE PolygonPoints(coords, i + 2, pts \o <<coords[i + 1], coords[i + 2]>>)

\* draw_point with x and y exchanged
draw_point_swapped(coords) ==
  Item("ellipse", <<FAdd(coords[2], -5), FAdd(coords[1], -5), Fin(10 * Scale), Fin(10 * Scale)>>,
       "red", 0, TRUE, FALSE)

\* QGraphicsEllipseItem(x - 5, y - 5, 10, 10), red pen, selectable
draw_point(coords) ==
  Item("ellipse", <<FAdd(coords[1], -5), FAdd(coords[2], -5), Fin(10 * Scale), Fin(10 * Scale)>>,
       "red", 0, TRUE, FALSE)

\* QGraphicsLineItem(x1, y1, x2, y2), blue pen, selectable
draw_line(coords) == Item("line", coords, "blue", 0, TRUE, FALSE)

\* QGraphicsPolygonItem(QPolygonF(points)), green pen, selectable
draw_polygon(pts) == Item("polygon", pts, "green", 0, TRUE, FALSE)

\* a grid line: light gray pen, z = -1, not selectable
draw_grid_line(x1, y1, x2, y2) ==
  Item("line", <<Fin(x1 * Scale), Fin(y1 * Scale), Fin(x2 * Scale), Fin(y2 * Scale)>>,
       "lightGray", -1, FALSE, TRUE)

\* len(range(0, stop, step))
RangeLen(stop, step) == (stop + step - 1) \div step

\* the items draw_grid adds, in the order it adds them
draw_grid ==
  [k \in 1..RangeLen(width, grid_size) |->
     draw_grid_line((k - 1) * grid_size, 0, (k - 1) * grid_size, height)]
  \o
  [k \in 1..RangeLen(height, grid_size) |->
     draw_grid_line(0, (k - 1) * grid_size, width, (k - 1) * grid_size)]

Reverse(s) == [i \in 1..Len(s) |-> s[Len(s) + 1 - i]]

ZLevels(sc) == {sc[i].z : i \in 1..Len(sc)}

RECURSIVE ItemsFrom(_, _)
ItemsFrom(sc, zs) ==
  IF zs = {} THEN <<>>
  ELSE LET top == CHOOSE z \in zs : \A w \in zs : w <= z
       IN  Reverse(SelectSeq(sc, LAMBDA it : it.z = top)) \o ItemsFrom(sc, zs \ {top})

\* QGraphicsScene.items(): descending stacking order, that is higher z first and,
\* within one z, the item added last first. sc is the scene in insertion order.
items(sc) == ItemsFrom(sc, ZLevels(sc))

(***************************************************************************)
(* parse_data: the body of its loop, on one line. st is the loop's state:  *)
(* the scene, the messages, all_data_valid, and exc, the exception raised  *)
(* ("none" when none).                                                     *)
(***************************************************************************)
\* the message with the line as read, not stripped
NonNumericMessage_unstripped(line) == <<"NonNumericToken: ">> \o line

\* f"Некорректные координаты в строке: {line.strip()}"
NonNumericMessage(line) == <<"NonNumericToken: ">> \o strip(line)

\* f"Ошибка: некорректная строка данных: {line.strip()}"
InvalidCountMessage(line) == <<"InvalidTokenCount: ">> \o strip(line)

\* list(map(float, coords))
Floats(toks) == [i \in 1..Len(toks) |-> float(toks[i])]

HasValueError(vals) == \E i \in 1..Len(vals) : vals[i] = ValueError

AddPolygon(st, coords) ==
  LET p == PolygonPoints(coords, 0, <<>>)
  IN  IF p.ok THEN [st EXCEPT !.scene = Append(@, draw_polygon(p.pts))]
      ELSE [st EXCEPT !.exc = "IndexError"]

\* a rejection that records the message and leaves all_data_valid alone
Reject_flag_kept(st, msg) == [st EXCEPT !.messages = Append(@, msg)]

\* messages.append(...); all_data_valid = False
Reject(st, msg) ==
  [st EXCEPT !.messages = Append(@, msg), !.all_data_valid = FALSE]

\* main.py: match len(coords): 2, 4, n if n >= 6 and n % 2 == 0, _
parse_data(line, st) ==
  LET coords == Floats(split(line))
      n      == Len(coords)
  IN  IF HasValueError(coords) THEN Reject(st, NonNumericMessage(line))
      ELSE IF n = 2 THEN [st EXCEPT !.scene = Append(@, draw_point(coords))]
      ELSE IF n = 4 THEN [st EXCEPT !.scene = Append(@, draw_line(coords))]
      ELSE IF n >= 6 /\ n % 2 = 0 THEN AddPolygon(st, coords)
      ELSE Reject(st, InvalidCountMessage(line))

\* gis_app.py: if len(coords) == 2 / elif == 4 / elif >= 6 / else
parseData(line, st) ==
  LET coords == Floats(split(line))
      n      == Len(coords)
  IN  IF HasValueError(coords) THEN Reject(st, NonNumericMessage(line))
      ELSE IF n = 2 THEN [st EXCEPT !.scene = Append(@, draw_point(coords))]
      ELSE IF n = 4 THEN [st EXCEPT !.scene = Append(@, draw_line(coords))]
      ELSE IF n >= 6 THEN AddPolygon(st, coords)
      ELSE Reject(st, InvalidCountMessage(line))

(***************************************************************************)
(* save_file: the line written for one item, and the loop over items().    *)
(***************************************************************************)
RECURSIVE IntsAcc(_, _, _)
\* int() of each value in turn, stopping at the first that raises
IntsAcc(vals, i, acc) ==
  IF i > Len(vals) THEN [exc |-> "none", ks |-> acc]
  ELSE LET r == int(vals[i])
       IN  IF r.ok THEN IntsAcc(vals, i + 1, Append(acc, IntToStr(r.k)))
           ELSE [exc |-> r.exc, ks |-> acc]

\* " ".join(f"{int(v)}" ...) + "\n"
FormatLine(vals) ==
  LET r == IntsAcc(vals, 1, <<>>)
  IN  [exc |-> r.exc, skip |-> FALSE, text |-> Join(<<" ">>, r.ks) \o <<"\n">>]

\* the corner of an ellipse's rect, in place of its centre
Centre_corner(it) == <<it.geom[1], it.geom[2]>>

\* the centre of an ellipse's rect
Centre(it) == <<FAddHalf(it.geom[1], it.geom[3]), FAddHalf(it.geom[2], it.geom[4])>>

\* the match of save_file on one item
SaveItem(it) ==
  IF it.kind = "ellipse" THEN FormatLine(Centre(it))
  ELSE IF it.kind = "line" /\ it.pen # "lightGray" THEN FormatLine(it.geom)
  ELSE IF it.kind = "polygon" THEN FormatLine(it.geom)
  ELSE [exc |-> "none", skip |-> TRUE, text |-> <<>>]

\* for item in self.scene.items(): the lines collected, until an exception
SaveLoop(its) ==
  LET rs     == [i \in 1..Len(its) |-> SaveItem(its[i])]
      raised == {i \in 1..Len(its) : rs[i].exc # "none"}
      stop   == IF raised = {} THEN Len(its) + 1 ELSE Nth(raised, 1)
      kept   == SelectSeq(SubSeq(rs, 1, stop - 1), LAMBDA r : ~r.skip)
  IN  [exc  |-> IF raised = {} THEN "none" ELSE rs[stop].exc,
       data |-> [j \in 1..Len(kept) |-> kept[j].text]]

(***************************************************************************)
(* The application's state.                                                *)
(*   impl          which version of GISApp runs: "main" (src/main.py) or   *)
(*                 "gis_app" (desktopgis/gis_app.py)                       *)
(*   pc            "idle", or "parse_data" while the parse loop of a load  *)
(*                 runs                                                    *)
(*   scene         the QGraphicsScene's items, in insertion order          *)
(*   file_path     self.file_path                                          *)
(*   filePathEdit  the text of the path field                              *)
(*   statusBar     the message the status bar shows: [msg, text]           *)
(*   disk          the files: path -> [kind, text], kind "file", "missing" *)
(*                 or "dir" (a path open() fails on)                       *)
(*   lines, idx    the lines the running load read, and how many of them   *)
(*                 parse_data has processed                                *)
(*   messages, all_data_valid   parse_data's list and flag                 *)
(*   fileio        the writes of the handler that ran last: the paths it   *)
(*                 opened for writing and the lines it wrote               *)
(*   exc           the exception that left a handler uncaught, "none"      *)
(*                 when none                                               *)
(*   loaded_from   history: the path of the last load that cleared the     *)
(*                 scene and rebuilt it from the file, "" before the       *)
(*                 first; no code reads it                                 *)
(***************************************************************************)
VARIABLES impl, pc, scene, file_path, filePathEdit, statusBar, disk,
          lines, idx, messages, all_data_valid, fileio, exc, loaded_from

vars == <<impl, pc, scene, file_path, filePathEdit, statusBar, disk,
          lines, idx, messages, all_data_valid, fileio, exc, loaded_from>>

Impls == {"main", "gis_app"}

Paths == {"a.txt", "b.txt"}

Status(msg, text) == [msg |-> msg, text |-> text]

File(text) == [kind |-> "file", text |-> text]

Missing == [kind |-> "missing", text |-> <<>>]

Dir == [kind |-> "dir", text |-> <<>>]

NoIO == [opened |-> <<>>, data |-> <<>>]

\* the shapes of a scene: its items that are not grid lines, in insertion order
Shapes(sc) == SelectSeq(sc, LAMBDA it : ~it.grid)

\* the grid lines of a scene, in insertion order
GridOf(sc) == SelectSeq(sc, LAMBDA it : it.grid)

(***************************************************************************)
(* load_file(path), from its start to the call of parse_data: the read,    *)
(* the empty-file return, scene.clear() and draw_grid().                   *)
(***************************************************************************)
\* a load that draws the grid and parses without clearing the scene first
LoadFileStart_no_clear(path) ==
  IF disk[path].kind # "file"
  THEN /\ statusBar' = Status("open_error", <<"OSError">>)
       /\ UNCHANGED <<pc, scene, lines, idx, messages, all_data_valid, loaded_from>>
  ELSE LET ls == readlines(disk[path].text)
       IN  IF ls = <<>>
           THEN /\ statusBar' = Status("empty", <<>>)
                /\ UNCHANGED <<pc, scene, lines, idx, messages, all_data_valid,
                               loaded_from>>
           ELSE /\ scene' = scene \o draw_grid
                /\ lines' = ls
                /\ idx' = 0
                /\ messages' = <<>>
                /\ all_data_valid' = TRUE
                /\ pc' = "parse_data"
                /\ loaded_from' = path
                /\ UNCHANGED statusBar

\* a load that clears the scene and draws the grid before it looks at the lines
LoadFileStart_clear_first(path) ==
  IF disk[path].kind # "file"
  THEN /\ statusBar' = Status("open_error", <<"OSError">>)
       /\ UNCHANGED <<pc, scene, lines, idx, messages, all_data_valid, loaded_from>>
  ELSE LET ls == readlines(disk[path].text)
       IN  IF ls = <<>>
           THEN /\ statusBar' = Status("empty", <<>>)
                /\ scene' = draw_grid
                /\ UNCHANGED <<pc, lines, idx, messages, all_data_valid, loaded_from>>
           ELSE /\ scene' = draw_grid
                /\ lines' = ls
                /\ idx' = 0
                /\ messages' = <<>>
                /\ all_data_valid' = TRUE
                /\ pc' = "parse_data"
                /\ loaded_from' = path
                /\ UNCHANGED statusBar

LoadFileStart(path) ==
  IF disk[path].kind # "file"
  THEN /\ statusBar' = Status(IF impl = "main" THEN "open_error" ELSE "read_error",
                              <<"OSError">>)
       /\ UNCHANGED <<pc, scene, lines, idx, messages, all_data_valid, loaded_from>>
  ELSE LET ls == readlines(disk[path].text)
       IN  IF ls = <<>>
           THEN /\ statusBar' = Status("empty", <<>>)
                /\ UNCHANGED <<pc, scene, lines, idx, messages, all_data_valid,
                               loaded_from>>
           ELSE /\ scene' = draw_grid
                /\ lines' = ls
                /\ idx' = 0
                /\ messages' = <<>>
                /\ all_data_valid' = TRUE
                /\ pc' = "parse_data"
                /\ loaded_from' = path
                /\ UNCHANGED statusBar

\* a direct call of load_file(path), as the tests make it
load_file(path) ==
  /\ pc = "idle" /\ exc = "none"
  /\ LoadFileStart(path)
  /\ fileio' = NoIO
  /\ UNCHANGED <<impl, file_path, filePathEdit, disk, exc>>

\* the Browse button: the dialog returns file_name ("" when cancelled)
open_file_dialog(file_name) ==
  /\ pc = "idle" /\ exc = "none"
  /\ fileio' = NoIO
  /\ IF file_name # ""
     THEN /\ file_path' = file_name
          /\ filePathEdit' = file_name
          /\ LoadFileStart(file_name)
     ELSE UNCHANGED <<file_path, filePathEdit, statusBar, pc, scene, lines, idx,
                      messages, all_data_valid, loaded_from>>
  /\ UNCHANGED <<impl, disk, exc>>

\* Enter, with text the content of the path field (main.py only)
load_file_from_input(text) ==
  /\ pc = "idle" /\ exc = "none"
  /\ impl = "main"
  /\ fileio' = NoIO
  /\ filePathEdit' = text
  /\ IF text # ""
     THEN /\ file_path' = text
          /\ LoadFileStart(text)
     ELSE UNCHANGED <<file_path, statusBar, pc, scene, lines, idx, messages,
                      all_data_valid, loaded_from>>
  /\ UNCHANGED <<impl, disk, exc>>

\* the loop body of the running version on one line
ParseLine(line, st) ==
  IF impl = "main" THEN parse_data(line, st) ELSE parseData(line, st)

\* the loop state before the iteration on line idx + 1
LoopState ==
  [scene |-> scene, messages |-> messages, all_data_valid |-> all_data_valid,
   exc |-> "none"]

\* One iteration of the parse loop, on line idx + 1. An exception leaves the loop
\* and the load: main.py's load_file catches ValueError only, gis_app.py's
\* loadFile catches any and shows it.
parse_data_step ==
  /\ pc = "parse_data" /\ idx < Len(lines)
  /\ LET st == ParseLine(lines[idx + 1], LoopState)
     IN  /\ scene' = st.scene
         /\ IF st.exc = "none"
            THEN /\ idx' = idx + 1
                 /\ messages' = st.messages
                 /\ all_data_valid' = st.all_data_valid
                 /\ UNCHANGED <<pc, statusBar, exc, lines>>
            ELSE /\ pc' = "idle"
                 /\ lines' = <<>>
                 /\ idx' = 0
                 /\ messages' = <<>>
                 /\ all_data_valid' = TRUE
                 /\ IF impl = "main"
                    THEN exc' = st.exc /\ UNCHANGED statusBar
                    ELSE statusBar' = Status("read_error", <<st.exc>>) /\ UNCHANGED exc
  /\ UNCHANGED <<impl, file_path, filePathEdit, disk, fileio, loaded_from>>

\* parse_data returns not all_data_valid as partial_success
partial_success == ~all_data_valid

\* the loop is over: parse_data returns and load_file shows the result
load_file_report ==
  /\ pc = "parse_data" /\ idx = Len(lines)
  /\ pc' = "idle"
  /\ statusBar' = IF partial_success
                  THEN Status("warnings", Join(<<"\n">>, messages))
                  ELSE Status("ok", <<>>)
  /\ lines' = <<>>
  /\ idx' = 0
  /\ messages' = <<>>
  /\ all_data_valid' = TRUE
  /\ UNCHANGED <<impl, scene, file_path, filePathEdit, disk, fileio, exc, loaded_from>>

(***************************************************************************)
(* save_file (Ctrl+S).                                                     *)
(***************************************************************************)
\* main.py: collect save_data, then open and writelines
save_file_main ==
  LET r == SaveLoop(items(scene))
  IN  IF r.exc # "none"
      THEN \* only AttributeError is caught
           /\ exc' = r.exc
           /\ fileio' = NoIO
           /\ UNCHANGED <<disk, statusBar>>
      ELSE IF disk[file_path].kind = "dir"
      THEN /\ statusBar' = Status("save_error", <<"OSError">>)
           /\ fileio' = [opened |-> <<file_path>>, data |-> <<>>]
           /\ UNCHANGED <<disk, exc>>
      ELSE /\ disk' = [disk EXCEPT ![file_path] = File(Flatten(r.data))]
           /\ fileio' = [opened |-> <<file_path>>, data |-> r.data]
           /\ statusBar' = Status("saved", <<>>)
           /\ UNCHANGED exc

\* gis_app.py: open, then write item by item; any exception is caught
save_file_gis_app ==
  LET r == SaveLoop(items(scene))
  IN  /\ UNCHANGED exc
      /\ IF disk[file_path].kind = "dir"
         THEN /\ statusBar' = Status("save_error", <<"OSError">>)
              /\ fileio' = [opened |-> <<file_path>>, data |-> <<>>]
              /\ UNCHANGED disk
         ELSE /\ disk' = [disk EXCEPT ![file_path] = File(Flatten(r.data))]
              /\ fileio' = [opened |-> <<file_path>>, data |-> r.data]
              /\ statusBar' = IF r.exc = "none" THEN Status("saved", <<>>)
                              ELSE Status("save_error", <<r.exc>>)

save_file ==
  /\ pc = "idle" /\ exc = "none"
  /\ IF file_path = ""
     THEN /\ statusBar' = Status("no_file", <<>>)
          /\ fileio' = NoIO
          /\ UNCHANGED <<disk, exc>>
     ELSE IF impl = "main" THEN save_file_main ELSE save_file_gis_app
  /\ UNCHANGED <<impl, pc, scene, file_path, filePathEdit, lines, idx, messages,
                 all_data_valid, loaded_from>>

(***************************************************************************)
(* keyPressEvent, Delete: selected is scene.selectedItems(), as positions  *)
(* in the scene; only selectable items can be selected.                    *)
(***************************************************************************)
Selectable(sc) == {i \in 1..Len(sc) : sc[i].selectable}

\* the scene without the items at the positions in sel
RemoveAt(sc, sel) ==
  LET keep == SelectSeq([i \in 1..Len(sc) |-> i], LAMBDA i : i \notin sel)
  IN  [j \in 1..Len(keep) |-> sc[keep[j]]]

keyPressEvent_Delete(selected) ==
  /\ pc = "idle" /\ exc = "none"
  /\ scene' = RemoveAt(scene, selected)
  /\ fileio' = NoIO
  /\ UNCHANGED <<impl, pc, file_path, filePathEdit, statusBar, disk, lines, idx,
                 messages, all_data_valid, exc, loaded_from>>

(***************************************************************************)
(* Input files.                                                            *)
(***************************************************************************)
\* the fixtures of tests/test_gis_app.py
valid_data ==
  <<"1","0","0"," ","1","0","0","\n",
    "2","0","0"," ","2","0","0"," ","3","0","0"," ","3","0","0","\n",
    "1","0","0"," ","1","0","0"," ","2","0","0"," ","1","0","0"," ","1","5","0"," ","2","0","0">>

invalid_data ==
  <<"1","0","0"," ","1","0","0","\n",
    "i","n","v","a","l","i","d","_","d","a","t","a","\n",
    "2","0","0"," ","2","0","0"," ","3","0","0">>

\* a file with a non-finite, an integer and a fractional record
mixed_data ==
  <<"n","a","n"," ","1","0","0","\n",
    "2","0","0"," ","2","0","0"," ","3","0","0"," ","3","0","0","\n",
    "-","2",".","5"," ","0",".","5","\n">>

\* numeric tokens, and tokens float() rejects
NumTokens ==
  << <<"1","0","0">>, <<"-","2",".","5">>, <<"3","0">>, <<"0",".","5">>,
     <<"-","7">>, <<"2","0","0">>, <<"+","3",".">>, <<".","5">> >>

BadTokens == << <<"a","b","c">>, <<"1","x">>, <<"-","-","1">> >>

NumToken(k) == NumTokens[((k - 1) % Len(NumTokens)) + 1]

\* a line of n numeric tokens
NumLine(n) == Join(<<" ">>, [k \in 1..n |-> NumToken(k)]) \o <<"\n">>

\* a line of n tokens, the one at position p not numeric, with whitespace around
BadLine(n, p) ==
  <<" ">> \o Join(<<" ", "\t">>, [k \in 1..n |-> IF k = p THEN BadTokens[(n % 3) + 1]
                                                  ELSE NumToken(k)])
  \o <<" ", "\n">>

\* lines with a non-finite value: float() accepts "nan" and "inf"
NonFiniteLines ==
  { <<"n","a","n"," ","1","0","0","\n">>,
    <<"1","0","0"," ","-","i","n","f"," ","3","0"," ","0",".","5","\n">> }

\* every kind of line: 0..MaxTokens numeric tokens, a non-numeric token in a
\* line of 1, 2 and MaxTokens tokens, non-finite values
LinePool ==
  {NumLine(n) : n \in 0..MaxTokens}
  \cup {BadLine(1, 1), BadLine(2, 2), BadLine(MaxTokens, 1)}
  \cup NonFiniteLines

\* the largest odd token count of the pool
OddMax == IF MaxTokens % 2 = 1 THEN MaxTokens ELSE MaxTokens - 1

\* the lines that files of several lines are made of: a point, a segment, a
\* polygon, a blank line, a non-numeric token, an odd count
MixPool ==
  {NumLine(2), NumLine(4), NumLine(6), NumLine(0), BadLine(2, 2), NumLine(OddMax)}

RECURSIVE SeqsUpTo(_, _)
\* the sequences over S of length at most n
SeqsUpTo(S, n) ==
  IF n = 0 THEN {<<>>}
  ELSE LET shorter == SeqsUpTo(S, n - 1)
       IN  shorter \cup {Append(q, e) : q \in shorter, e \in S}

\* the input files of the parser: one line of LinePool, or up to MaxLines lines
\* of MixPool
InputFiles ==
  LinePool \cup {Flatten(ls) : ls \in SeqsUpTo(MixPool, MaxLines)}

InitApp ==
  /\ pc = "idle"
  /\ scene = draw_grid
  /\ file_path = ""
  /\ filePathEdit = ""
  /\ statusBar = Status("", <<>>)
  /\ lines = <<>>
  /\ idx = 0
  /\ messages = <<>>
  /\ all_data_valid = TRUE
  /\ fileio = NoIO
  /\ exc = "none"
  /\ loaded_from = ""

\* a session: a.txt holds a fixture, b.txt is empty, missing or unreadable
InitDisk ==
  \E a \in {valid_data, invalid_data, mixed_data}, b \in {File(<<>>), Missing, Dir} :
    disk = [p \in Paths |-> IF p = "a.txt" THEN File(a) ELSE b]

\* a parse: a.txt holds any input file
InitParseDisk ==
  \E a \in InputFiles :
    disk = [p \in Paths |-> IF p = "a.txt" THEN File(a) ELSE Missing]

Init == impl \in Impls /\ InitApp /\ InitDisk

InitMain == impl = "main" /\ InitApp /\ InitDisk

InitParse == impl \in Impls /\ InitApp /\ InitParseDisk

InitParseMain == impl = "main" /\ InitApp /\ InitParseDisk

NextParse ==
  \/ \E p \in Paths : load_file(p)
  \/ parse_data_step
  \/ load_file_report

Next ==
  \/ \E p \in Paths \cup {""} : open_file_dialog(p)
  \/ \E p \in Paths \cup {""} : load_file_from_input(p)
  \/ parse_data_step
  \/ load_file_report
  \/ save_file
  \/ \E sel \in SUBSET Selectable(scene) : keyPressEvent_Delete(sel)

\* a session of either version, and of main.py alone
Spec == Init /\ [][Next]_vars

SpecMain == InitMain /\ [][Next]_vars

\* loads of any input file, by either version and by main.py alone
SpecParse == InitParse /\ [][NextParse]_vars

SpecParseMain == InitParseMain /\ [][NextParse]_vars

(***************************************************************************)
(* The vocabulary of the properties.                                       *)
(***************************************************************************)
\* the parse loop is about to process a line, and the line
AtLine == pc = "parse_data" /\ idx < Len(lines)

CurLine == lines[idx + 1]

\* the parse loop has processed every line and load_file is about to report
AtReport == pc = "parse_data" /\ idx = Len(lines)

\* every token of the line is a number
Numeric(line) == \A i \in 1..Len(split(line)) : float(split(line)[i]) # ValueError

Values(line) == [i \in 1..Len(split(line)) |-> float(split(line)[i])]

\* the token counts of a record: 2, 4, or an even count from 6
ValidCount(n) == n = 2 \/ n = 4 \/ (n >= 6 /\ n % 2 = 0)

WellFormed(line) == Numeric(line) /\ ValidCount(Len(split(line)))

\* the vertices of a polygon item, as pairs
Vertices(it) ==
  [k \in 1..(Len(it.geom) \div 2) |-> <<it.geom[2 * k - 1], it.geom[2 * k]>>]

\* it is the record the well-formed line denotes: a Point at the two values, a
\* Segment of the four values, a Polygon of the N / 2 vertices
IsRecordOf(it, line) ==
  LET v == Values(line)
      n == Len(v)
  IN  /\ ~it.grid
      /\ n = 2 => it.kind = "ellipse" /\ Centre(it) = v
      /\ n = 4 => it.kind = "line" /\ it.geom = v
      /\ n >= 6 => /\ it.kind = "polygon"
                   /\ Len(it.geom) = n
                   /\ Len(Vertices(it)) = n \div 2
                   /\ \A k \in 1..(n \div 2) : Vertices(it)[k] = <<v[2 * k - 1], v[2 * k]>>

\* t is the line without its leading and trailing whitespace
IsTrimOf(t, line) ==
  \E a, b \in 0..Len(line) :
    /\ a + Len(t) + b = Len(line)
    /\ SubSeq(line, a + 1, a + Len(t)) = t
    /\ \A i \in 1..a : line[i] \in Whitespace
    /\ \A i \in (Len(line) - b + 1)..Len(line) : line[i] \in Whitespace
    /\ t # <<>> => (t[1] \notin Whitespace /\ t[Len(t)] \notin Whitespace)

\* msg is the diagnostic of the given reason for the line
Diagnostic(msg, reason, line) ==
  /\ msg # <<>>
  /\ msg[1] = reason
  /\ IsTrimOf(Tail(msg), line)

\* the step appends exactly x to the sequence
Appends(old, new) == Len(new) = Len(old) + 1 /\ SubSeq(new, 1, Len(old)) = old

Last(q) == q[Len(q)]

\* the positions of the first n lines that are (not) well-formed, in order
GoodLines(ls, n) == SelectSeq([i \in 1..n |-> i], LAMBDA i : WellFormed(ls[i]))

BadLines(ls, n) == SelectSeq([i \in 1..n |-> i], LAMBDA i : ~WellFormed(ls[i]))

(***************************************************************************)
(* Line Parser.                                                            *)
(***************************************************************************)
\* C1: a line whose N tokens are all numbers adds exactly one record and no
\* diagnostic: N = 2 a Point at the two values in order, N = 4 a Segment of the
\* four values in order, an even N >= 6 a Polygon of N / 2 vertices paired in order.
C1_TokenCountSelectsRecord ==
  [][(AtLine /\ Numeric(CurLine) /\ ValidCount(Len(split(CurLine))))
       => /\ Appends(scene, scene')
          /\ IsRecordOf(Last(scene'), CurLine)
          /\ messages' = messages
          /\ all_data_valid' = all_data_valid]_vars

\* the loop has just added the polygon of a line of six or more numbers
C1_PolygonAdded ==
  /\ pc = "parse_data" /\ idx > 0
  /\ Numeric(lines[idx]) /\ Len(split(lines[idx])) >= 6
  /\ Shapes(scene) # <<>>
  /\ Last(Shapes(scene)).kind = "polygon"
  /\ Len(Vertices(Last(Shapes(scene)))) = Len(split(lines[idx])) \div 2

\* C2: a line of numbers whose count is 0 (a blank line), 1, 3, 5 or an odd
\* number from 7 adds no record and exactly one InvalidTokenCount diagnostic for
\* that line, and the parse goes on to the next line.
C2_InvalidCountRejected ==
  [][(AtLine /\ Numeric(CurLine) /\ ~ValidCount(Len(split(CurLine))))
       => /\ scene' = scene
          /\ Appends(messages, messages')
          /\ Diagnostic(Last(messages'), "InvalidTokenCount: ", CurLine)
          /\ pc' = "parse_data" /\ idx' = idx + 1 /\ lines' = lines]_vars

\* C3: a line with a token that is not a number adds no record and exactly one
\* NonNumericToken diagnostic with the line's trimmed text, whatever its token
\* count; it never adds an InvalidTokenCount diagnostic.
C3_NonNumericRejected ==
  [][(AtLine /\ ~Numeric(CurLine))
       => /\ scene' = scene
          /\ Appends(messages, messages')
          /\ Diagnostic(Last(messages'), "NonNumericToken: ", CurLine)
          /\ Last(messages')[1] # "InvalidTokenCount: "]_vars

\* the loop has just rejected a line of two tokens, one of them not a number
C3_NonNumericReported ==
  /\ pc = "parse_data" /\ idx > 0
  /\ ~Numeric(lines[idx]) /\ ValidCount(Len(split(lines[idx])))
  /\ messages # <<>>
  /\ Diagnostic(Last(messages), "NonNumericToken: ", lines[idx])
  /\ Len(Last(messages)) < 1 + Len(lines[idx])

\* the records of sc are those of the well-formed lines among the first n of ls,
\* in order
RecordsOfGoodLines(sc, ls, n) ==
  LET good == GoodLines(ls, n)
  IN  /\ Len(Shapes(sc)) = Len(good)
      /\ \A k \in 1..Len(good) : IsRecordOf(Shapes(sc)[k], ls[good[k]])

\* C4: the parse handles the lines one at a time: no line, malformed or not,
\* ends the load, and after every line the records are exactly those of the
\* well-formed lines so far, in input order.
C4_LinesAreIndependent ==
  [][AtLine => /\ pc' = "parse_data" /\ idx' = idx + 1 /\ lines' = lines
               /\ RecordsOfGoodLines(scene', lines, idx + 1)]_vars

\* the diagnostics are those of the malformed lines of ls, in line order
DiagnosticsOfBadLines(msgs, ls) ==
  LET bad == BadLines(ls, Len(ls))
  IN  /\ Len(msgs) = Len(bad)
      /\ \A k \in 1..Len(bad) :
           Diagnostic(msgs[k],
                      IF Numeric(ls[bad[k]]) THEN "InvalidTokenCount: "
                      ELSE "NonNumericToken: ",
                      ls[bad[k]])

LoadOf(p) == open_file_dialog(p) \/ load_file_from_input(p)

\* open() or the read of p raises, or p has no lines
Unreadable(p) == disk[p].kind # "file"

ZeroLines(p) == disk[p].kind = "file" /\ disk[p].text = <<>>

\* C6: a load of a file with zero lines, or of a file whose read raises an I/O
\* error, leaves the scene (Shape Store and grid overlay) as it was and ends
\* there: no record is added.
C6_FailedLoadKeepsScene ==
  [][\A p \in Paths :
       (LoadOf(p) /\ (Unreadable(p) \/ ZeroLines(p)))
         => (scene' = scene /\ pc' = "idle")]_vars

\* an empty file has just been loaded while shapes were displayed
C6_EmptyFileLoadedOverShapes ==
  /\ pc = "idle"
  /\ statusBar.msg = "empty"
  /\ file_path \in Paths /\ ZeroLines(file_path)
  /\ Shapes(scene) # <<>>

\* Ctrl+S with a file path set, on a path open() accepts
Saves == save_file /\ file_path # "" /\ disk[file_path].kind # "dir"

\* the text line of a record
LineOf(it) == SaveItem(it).text

\* the lines of the records of sc, in insertion order
LinesOf(sc) == [i \in 1..Len(Shapes(sc)) |-> LineOf(Shapes(sc)[i])]

\* how many times the line t occurs in the sequence q
Count(q, t) == Cardinality({i \in 1..Len(q) : q[i] = t})

\* every coordinate of the records of sc is a whole number
IntegerValued(sc) ==
  \A k \in 1..Len(Shapes(sc)) :
    \A i \in 1..Len(Shapes(sc)[k].geom) :
      Shapes(sc)[k].geom[i].cls = "fin" /\ Shapes(sc)[k].geom[i].n % Scale = 0

RECURSIVE ParseLines(_, _)
\* parse_data over the lines ls, from the loop state st
ParseLines(ls, st) ==
  IF ls = <<>> THEN st ELSE ParseLines(Tail(ls), parse_data(Head(ls), st))

\* the records the parse of a text yields
Reparsed(text) ==
  Shapes(ParseLines(readlines(text),
                    [scene |-> <<>>, messages |-> <<>>, all_data_valid |-> TRUE,
                     exc |-> "none"]).scene)

\* C7: a save writes exactly one line per record held, in store order: the
\* i-th line is the serialization of the i-th inserted record still present,
\* whatever was deleted before.
C7_OneLinePerRecordInStoreOrder ==
  [][Saves => fileio'.data = LinesOf(scene)]_vars

\* C8: save_file with a file path set opens that path for writing exactly once
\* and writes one line per shape, a point as its centre and a segment as its
\* four coordinates, the most recently added shape first.
C8_SaveWritesMostRecentFirst ==
  [][(save_file /\ file_path # "")
       => /\ fileio'.opened = <<file_path>>
          /\ disk[file_path].kind # "dir" => fileio'.data = Reverse(LinesOf(scene))]_vars

C10_GridNeverSerialized ==
  [][Saves
       => /\ \A i \in 1..Len(fileio'.data) :
               Count(fileio'.data, fileio'.data[i]) <= Count(LinesOf(scene), fileio'.data[i])
          /\ \A k \in 1..Len(Shapes(scene)) :
               Shapes(scene)[k].kind = "line"
                 => Count(fileio'.data, LineOf(Shapes(scene)[k])) >= 1]_vars

\* every coordinate of the records of sc is finite
FiniteValued(sc) ==
  \A k \in 1..Len(Shapes(sc)) :
    \A i \in 1..Len(Shapes(sc)[k].geom) : Shapes(sc)[k].geom[i].cls = "fin"

\* What C7, C8 and C10 leave true: a save of a store whose coordinates are all
\* finite opens the file path once and, when the open succeeds, writes the lines
\* of the records, and only those, the most recently inserted record first.
SaveOfFiniteStore ==
  [][(save_file /\ file_path # "" /\ FiniteValued(scene))
       => /\ exc' = "none"
          /\ fileio'.opened = <<file_path>>
          /\ disk[file_path].kind # "dir" => fileio'.data = Reverse(LinesOf(scene))]_vars

\* What C2 and C4 leave true: in src/main.py no line ends the parse.
MainParsesEveryLine ==
  [][(AtLine /\ impl = "main") => (pc' = "parse_data" /\ idx' = idx + 1)]_vars

(***************************************************************************)
(* Delete.                                                                 *)
(***************************************************************************)
\* the items of sc at the positions outside sel, in their order
Unselected(sc, sel) ==
  LET keep == SelectSeq([i \in 1..Len(sc) |-> i], LAMBDA i : i \notin sel)
  IN  [j \in 1..Len(keep) |-> sc[keep[j]]]

\* the lines a save of the scene sc produces, and the exception it ends with
Serialized(sc) == SaveLoop(items(sc))

\* C11: Delete removes exactly the selected records: the store then holds the
\* unselected records in their previous order, the grid is unchanged, nothing
\* changes when nothing is selected, and a save that follows writes one line
\* for each remaining record and no line for a removed one.
C11_DeleteRemovesSelected ==
  [][\A sel \in SUBSET Selectable(scene) :
       keyPressEvent_Delete(sel)
         => /\ Shapes(scene') = Shapes(Unselected(scene, sel))
            /\ GridOf(scene') = GridOf(scene)
            /\ sel = {} => scene' = scene
            /\ Serialized(scene').exc = "none"
            /\ Len(Serialized(scene').data) = Len(Shapes(scene'))
            /\ \A k \in 1..Len(Shapes(scene')) :
                 Count(Serialized(scene').data, LineOf(Shapes(scene')[k]))
                   = Count(LinesOf(scene'), LineOf(Shapes(scene')[k]))]_vars

\* What C11 leaves true: the store and the grid after Delete, and the lines of
\* a save that follows when every remaining coordinate is finite.
DeleteOfSelection ==
  [][\A sel \in SUBSET Selectable(scene) :
       keyPressEvent_Delete(sel)
         => /\ Shapes(scene') = Shapes(Unselected(scene, sel))
            /\ GridOf(scene') = GridOf(scene)
            /\ sel = {} => scene' = scene
            /\ FiniteValued(scene')
                 => /\ Serialized(scene').exc = "none"
                    /\ Serialized(scene').data = Reverse(LinesOf(scene'))]_vars

(***************************************************************************)
(* The file a save writes.                                                 *)
(***************************************************************************)
\* C12: after any loads (successful, of an empty file, or failing with an I/O
\* error), deletes and saves, the path a save opens for writing is the path of
\* the most recent load that populated the Shape Store.
C12_SaveWritesLoadedFile ==
  [][(save_file /\ loaded_from # "" /\ fileio'.opened # <<>>)
       => fileio'.opened = <<loaded_from>>]_vars

\* What C12 leaves true: a save opens self.file_path, the path of the most
\* recent load attempt, whether that load populated the store or not.
SaveWritesFilePath ==
  [][(save_file /\ fileio'.opened # <<>>) => fileio'.opened = <<file_path>>]_vars

(***************************************************************************)
(* The store after a load.                                                 *)
(***************************************************************************)
\* C13: a load of a file with at least one line starts from the grid alone,
\* whatever the scene held, and when its parse ends the store holds exactly the
\* records of the file's well-formed lines, in order, with exactly one grid
\* overlay; the report leaves that scene as it is.
C13_LoadReplacesStore ==
  [][/\ \A p \in Paths :
          (LoadOf(p) /\ disk[p].kind = "file" /\ disk[p].text # <<>>)
            => (scene' = draw_grid /\ lines' = readlines(disk[p].text) /\ idx' = 0)
     /\ AtLine => GridOf(scene') = draw_grid
     /\ AtReport => /\ GridOf(scene) = draw_grid
                    /\ RecordsOfGoodLines(scene, lines, Len(lines))
                    /\ scene' = scene]_vars

\* the parse of a file that an earlier save of this session wrote has ended:
\* the load ran over the records of an earlier load
C13_ReloadedOverEarlierRecords ==
  /\ AtReport
  /\ loaded_from = file_path
  /\ disk[file_path].text \notin {valid_data, invalid_data, mixed_data}
  /\ lines = readlines(disk[file_path].text)
  /\ Len(Shapes(scene)) >= 2
  /\ GridOf(scene) = draw_grid

(***************************************************************************)
(* Exceptions.                                                             *)
(***************************************************************************)
\* C14: no exception leaves the parser or the serializer: the parse of a line,
\* whatever its tokens (nan and inf, odd counts from 7 included), goes on to the
\* next line with the failure recorded as a message, and a save of the records
\* to a path open() accepts ends without an exception.
C14_NoExceptionPropagates ==
  [][/\ AtLine => (pc' = "parse_data" /\ idx' = idx + 1 /\ exc' = "none")
     /\ Saves => exc' = "none"]_vars

\* What C14 leaves true: in src/main.py the parse of a line never raises, and a
\* save of a store whose coordinates are all finite never raises.
NoExceptionOnFiniteStore ==
  [][/\ (AtLine /\ impl = "main") => (pc' = "parse_data" /\ exc' = "none")
     /\ (Saves /\ FiniteValued(scene)) => (exc' = "none" /\ statusBar'.msg = "saved")]_vars
====
